---- MODULE Spec2Model ----
(***************************************************************************)
(* fsmtui: the keyboard-driven editor of src/src/main.rs as a state        *)
(* machine.  A node (FSMState) lives at an address of the Rc heap, with    *)
(* the number of Rc's that hold it (strong); the node is dropped when      *)
(* that number reaches 0.  The Vec `states` holds Rc's; the two selection  *)
(* slots and every next_states entry are Weak references: an address that  *)
(* may outlive its node.  Weak::new() is Null.  An address is handed out   *)
(* again only when no Rc and no Weak holds it.                             *)
(***************************************************************************)
EXTENDS Integers, Sequences, FiniteSets, TLC

\* ---------------------------------------------------------------- bounds
\* Size of the address space new nodes are allocated from.
MaxAddr == 3
\* Total number of Weak references held in next_states lists.
MaxEdges == 2
\* Longest pending name typed.
MaxNameLen == 2
\* Largest distance, in move steps, of a node from its spawn position.
MaxStep == 1
\* Number of nodes in the Graph at a time, where a specification caps it.
MaxLive == 2

\* ------------------------------------------------------ program constants
SpawnX == 200
SpawnY == 200
MoveStep == 5

Addr == 1 .. MaxAddr
Null == 0

\* Option<String>: None, or Some(s) holding the string s
None == <<>>
Some(s) == <<s>>
Unwrap(o) == o[1]

\* key.code values the terminal delivers
CommandChars == {"q", "s", "c", "d", "n", "m"}
Chars == CommandChars \cup {"a"}
Markers == <<"Dot", "Block", "Bar", "Braille", "HalfBlock">>

VARIABLES
    states,                     \* App.states: Vec<Rc<RefCell<FSMState>>>
    heap,                       \* the FSMState behind each address
    selected_state,             \* App.selected_state: Weak
    secondary_selected_state,   \* App.secondary_selected_state: Weak
    new_state_name,             \* App.new_state_name: Option<String>
    marker,                     \* App.marker
    pc,                         \* where main is: "run", "returned", "exit"
    result,                     \* app_result: "none", "Ok", "Err"
    restored                    \* number of ratatui::restore() calls made

vars == <<states, heap, selected_state, secondary_selected_state,
          new_state_name, marker, pc, result, restored>>

\* ----------------------------------------------------------------- helpers
Range(s) == {s[i] : i \in 1 .. Len(s)}

\* The value of a dropped or never allocated FSMState.
NoNode == [x |-> 0, y |-> 0, name |-> <<>>, next_states |-> <<>>, strong |-> 0]

\* struct FSMState as built by the Enter handler
NewNode(nm) ==
    [x |-> SpawnX, y |-> SpawnY, name |-> nm, next_states |-> <<>>, strong |-> 1]

\* struct App
App == [states |-> states, heap |-> heap, selected_state |-> selected_state,
        secondary_selected_state |-> secondary_selected_state,
        new_state_name |-> new_state_name, marker |-> marker]

\* Weak::upgrade: the node, or Null (Rust's None) once no Rc holds it.
Upgrade(a, w) == IF w # Null /\ a.heap[w].strong > 0 THEN w ELSE Null

\* Dropping one Rc of the node at n: the last one drops the node, and with
\* it the Weak's of its next_states.
DropRc(h, n) ==
    IF h[n].strong = 1 THEN [h EXCEPT ![n] = NoNode]
    ELSE [h EXCEPT ![n].strong = @ - 1]

\* Iterator::position(|s| Rc::ptr_eq(s, &state)): 0 stands for None
RECURSIVE PositionFrom(_, _, _)
PositionFrom(s, w, i) ==
    IF i > Len(s) THEN 0
    ELSE IF s[i] = w THEN i ELSE PositionFrom(s, w, i + 1)

Position(s, w) == PositionFrom(s, w, 1)

\* Vec::swap_remove
SwapRemove(s, i) ==
    LET n == Len(s) IN
    IF i = n THEN SubSeq(s, 1, n - 1)
    ELSE [j \in 1 .. n - 1 |-> IF j = i THEN s[n] ELSE s[j]]

\* iter().skip_while(|e| e != w).nth(1): 0 stands for None
SkipWhileNth1(s, w) ==
    LET p == Position(s, w) IN
    IF p = 0 \/ p + 1 > Len(s) THEN 0 ELSE p + 1

\* Addresses some Weak still points at: their allocation is not released.
WeakHeld(a) ==
    {a.selected_state, a.secondary_selected_state}
    \cup UNION {Range(a.heap[n].next_states) : n \in Addr}

\* Faulty variant of FreeAddrs: the place of a dropped node is handed out again
\* while a Weak still points at it, as a bare index into an arena would be.
FreeAddrsDropped(a) == {n \in Addr : a.heap[n].strong = 0}

\* Addresses Rc::new may return
FreeAddrs(a) == {n \in Addr : a.heap[n].strong = 0} \ WeakHeld(a)

\* Number of Weak references held in next_states lists
RECURSIVE SumLen(_, _)
SumLen(h, S) ==
    IF S = {} THEN 0
    ELSE LET n == CHOOSE m \in S : TRUE
         IN Len(h[n].next_states) + SumLen(h, S \ {n})

EdgeCount(a) == SumLen(a.heap, Addr)

\* ------------------------------------------------- naming-mode handlers
\* KeyCode::Char(ch) => new_state_name.push(ch)
OnNamingChar(a, ch) ==
    [a EXCEPT !.new_state_name = Some(Append(Unwrap(@), ch))]

\* Faulty variant of OnNamingBackspace: the whole buffer is cleared.
OnNamingBackspaceClear(a) ==
    IF Unwrap(a.new_state_name) # <<>>
    THEN [a EXCEPT !.new_state_name = Some(<<>>)]
    ELSE a

\* KeyCode::Backspace
OnNamingBackspace(a) ==
    LET name == Unwrap(a.new_state_name) IN
    IF name # <<>>
    THEN [a EXCEPT !.new_state_name = Some(SubSeq(name, 1, Len(name) - 1))]
    ELSE a

\* Faulty variant of OnNamingEnter: the new node is not made the primary selection.
OnNamingEnterNoSelect(a, addr) ==
    [a EXCEPT !.heap = [@ EXCEPT ![addr] = NewNode(Unwrap(a.new_state_name))],
              !.new_state_name = None,
              !.states = Append(@, addr)]

\* KeyCode::Enter, the Rc allocated at address addr
OnNamingEnter(a, addr) ==
    [a EXCEPT !.heap = [@ EXCEPT ![addr] = NewNode(Unwrap(a.new_state_name))],
              !.new_state_name = None,
              !.selected_state = addr,
              !.states = Append(@, addr)]

\* KeyCode::Esc
OnNamingEsc(a) == [a EXCEPT !.new_state_name = None]

\* ------------------------------------------------- normal-mode handlers
\* Faulty variant of OnStage: staging is skipped when primary does not resolve, so
\* a staged secondary survives.
OnStageIfSet(a) ==
    IF Upgrade(a, a.selected_state) # Null
    THEN [a EXCEPT !.secondary_selected_state = a.selected_state,
                   !.selected_state = Null]
    ELSE a

\* KeyCode::Char('s')
OnStage(a) ==
    [a EXCEPT !.secondary_selected_state = a.selected_state,
              !.selected_state = Null]

\* Faulty variant of ToggleEdge: the retain is forgotten, edges are only added.
ToggleEdgeAddOnly(next, a, sel) == Append(next, sel)

\* Faulty variant of ToggleEdge: the push is forgotten, edges are only removed.
ToggleEdgeRemoveOnly(next, a, sel) ==
    SelectSeq(next, LAMBDA s : IF Upgrade(a, s) # Null THEN s # sel ELSE TRUE)

\* Faulty variant of ToggleEdge: the retain drops the references that do not
\* upgrade as well.
ToggleEdgePruneStale(next, a, sel) ==
    LET keep(s) == IF Upgrade(a, s) # Null THEN s # sel ELSE FALSE
        kept == SelectSeq(next, keep)
    IN IF Len(kept) = Len(next) THEN Append(kept, sel) ELSE kept

\* the retain / push of KeyCode::Char('c')
ToggleEdge(next, a, sel) ==
    LET keep(s) == IF Upgrade(a, s) # Null THEN s # sel ELSE TRUE
        kept == SelectSeq(next, keep)
    IN IF Len(kept) = Len(next) THEN Append(kept, sel) ELSE kept

\* Faulty variant of OnConnect: the edge is stored on primary, towards secondary.
OnConnectReversed(a) ==
    LET sel == Upgrade(a, a.selected_state)
        sec == Upgrade(a, a.secondary_selected_state)
    IN IF sel # Null /\ sec # Null
       THEN [a EXCEPT !.heap = [@ EXCEPT ![sel].next_states =
                                    ToggleEdge(@, a, sec)],
                      !.selected_state = Null,
                      !.secondary_selected_state = Null]
       ELSE a

\* Faulty variant of OnConnect: the two slots are cleared outside the if-let, also
\* when one of them does not resolve.
OnConnectClearAlways(a) ==
    LET sel == Upgrade(a, a.selected_state)
        sec == Upgrade(a, a.secondary_selected_state)
    IN IF sel # Null /\ sec # Null
       THEN [a EXCEPT !.heap = [@ EXCEPT ![sec].next_states =
                                    ToggleEdge(@, a, sel)],
                      !.selected_state = Null,
                      !.secondary_selected_state = Null]
       ELSE [a EXCEPT !.selected_state = Null,
                      !.secondary_selected_state = Null]

\* Faulty variant of OnConnect: a node is not connected to itself.
OnConnectDistinct(a) ==
    LET sel == Upgrade(a, a.selected_state)
        sec == Upgrade(a, a.secondary_selected_state)
    IN IF sel # Null /\ sec # Null /\ sel # sec
       THEN [a EXCEPT !.heap = [@ EXCEPT ![sec].next_states =
                                    ToggleEdge(@, a, sel)],
                      !.selected_state = Null,
                      !.secondary_selected_state = Null]
       ELSE a

\* KeyCode::Char('c')
OnConnect(a) ==
    LET sel == Upgrade(a, a.selected_state)
        sec == Upgrade(a, a.secondary_selected_state)
    IN IF sel # Null /\ sec # Null
       THEN [a EXCEPT !.heap = [@ EXCEPT ![sec].next_states =
                                    ToggleEdge(@, a, sel)],
                      !.selected_state = Null,
                      !.secondary_selected_state = Null]
       ELSE a

\* Faulty variant of OnDelete: a strong reference to the node is kept elsewhere, so
\* removing it from the Vec does not drop it.
OnDeleteLeak(a) ==
    LET st == Upgrade(a, a.selected_state) IN
    IF st # Null
    THEN [a EXCEPT !.states = SwapRemove(@, Position(@, st))]
    ELSE a

\* Faulty variant of OnDelete: the node at index 0 is removed, not the one found.
OnDeleteFirst(a) ==
    LET st == Upgrade(a, a.selected_state) IN
    IF st # Null
    THEN [a EXCEPT !.states = SwapRemove(@, 1),
                   !.heap = DropRc(@, a.states[1])]
    ELSE a

\* KeyCode::Char('d'): the Rc swap_remove returns is dropped at once
OnDelete(a) ==
    LET st == Upgrade(a, a.selected_state) IN
    IF st # Null
    THEN [a EXCEPT !.states = SwapRemove(@, Position(@, st)),
                   !.heap = DropRc(@, st)]
    ELSE a

\* KeyCode::Char('n')
OnNew(a) == [a EXCEPT !.new_state_name = Some(<<>>)]

\* Faulty variant of NextMarker: without the unwrap_or the last style has no
\* successor and stays.
NextMarkerNoWrap(m) ==
    LET i == SkipWhileNth1(Markers, m) IN
    IF i = 0 THEN m ELSE Markers[i]

\* KeyCode::Char('m')
NextMarker(m) ==
    LET i == SkipWhileNth1(Markers, m) IN
    IF i = 0 THEN Markers[1] ELSE Markers[i]

OnMarker(a) == [a EXCEPT !.marker = NextMarker(@)]

\* Faulty variant of OnTab: no wrap, the last node stays selected.
OnTabNoWrap(a) ==
    LET st == Upgrade(a, a.selected_state) IN
    IF st # Null
    THEN LET i == SkipWhileNth1(a.states, st)
         IN [a EXCEPT !.selected_state = IF i = 0 THEN st ELSE a.states[i]]
    ELSE IF a.states # <<>>
         THEN [a EXCEPT !.selected_state = a.states[1]]
         ELSE a

\* Faulty variant of OnTab: after the last node the selection is cleared for one
\* press before it starts again at the first.
OnTabViaEmpty(a) ==
    LET st == Upgrade(a, a.selected_state) IN
    IF st # Null
    THEN LET i == SkipWhileNth1(a.states, st)
         IN [a EXCEPT !.selected_state = IF i = 0 THEN Null ELSE a.states[i]]
    ELSE IF a.states # <<>>
         THEN [a EXCEPT !.selected_state = a.states[1]]
         ELSE a

\* KeyCode::Tab
OnTab(a) ==
    LET st == Upgrade(a, a.selected_state) IN
    IF st # Null
    THEN LET i == SkipWhileNth1(a.states, st)
         IN [a EXCEPT !.selected_state =
                 IF i = 0 THEN a.states[1] ELSE a.states[i]]
    ELSE IF a.states # <<>>
         THEN [a EXCEPT !.selected_state = a.states[1]]
         ELSE a

\* KeyCode::Esc
OnEsc(a) ==
    [a EXCEPT !.selected_state = Null, !.secondary_selected_state = Null]

\* KeyCode::Left, Right, Up, Down
OnMove(a, dx, dy) ==
    LET st == Upgrade(a, a.selected_state) IN
    IF st # Null
    THEN [a EXCEPT !.heap = [@ EXCEPT ![st].x = @ + dx, ![st].y = @ + dy]]
    ELSE a

\* Faulty variant of OnUp: y grows downwards, as rows of a terminal do.
OnUpScreen(a) == OnMove(a, 0, -MoveStep)

OnLeft(a) == OnMove(a, -MoveStep, 0)
OnRight(a) == OnMove(a, MoveStep, 0)
OnUp(a) == OnMove(a, 0, MoveStep)
OnDown(a) == OnMove(a, 0, -MoveStep)

\* ------------------------------------------------------------- rendering
\* FSMState::draw of the node at n: the targets an arrow (a shaft and two
\* wings) is drawn to, in drawing order
ArrowTargets(a, n) ==
    SelectSeq(a.heap[n].next_states, LAMBDA w : Upgrade(a, w) # Null)

\* ------------------------------------------------------- RefCell borrows
\* What a piece of code does to the RefCells, in order: borrow() and
\* borrow_mut() of the node at an address, and the drop of the Ref or RefMut
\* they returned.
Borrow(n) == [op |-> "borrow", cell |-> n]
BorrowMut(n) == [op |-> "borrow_mut", cell |-> n]
DropRef(n) == [op |-> "drop", cell |-> n]
DropRefMut(n) == [op |-> "drop_mut", cell |-> n]

\* Whether the RefCell operations of trace panic, flags being each cell's
\* borrow flag: the number of Ref's out, -1 while a RefMut is out.
\* borrow() panics while a RefMut is out, borrow_mut() while anything is.
RECURSIVE RunBorrows(_, _)
RunBorrows(trace, flags) ==
    IF trace = <<>> THEN FALSE
    ELSE LET e == Head(trace)
             f == flags[e.cell]
         IN CASE e.op = "borrow" ->
                     \/ f < 0
                     \/ RunBorrows(Tail(trace), [flags EXCEPT ![e.cell] = f + 1])
              [] e.op = "borrow_mut" ->
                     \/ f # 0
                     \/ RunBorrows(Tail(trace), [flags EXCEPT ![e.cell] = -1])
              [] e.op = "drop" ->
                     RunBorrows(Tail(trace), [flags EXCEPT ![e.cell] = f - 1])
              [] e.op = "drop_mut" ->
                     RunBorrows(Tail(trace), [flags EXCEPT ![e.cell] = 0])

Panics(trace) == RunBorrows(trace, [n \in Addr |-> 0])

\* The concatenation of the sequences of ss
RECURSIVE Flatten(_)
Flatten(ss) == IF ss = <<>> THEN <<>> ELSE Head(ss) \o Flatten(Tail(ss))

\* KeyCode::Char('c'): next_states.len() is read through a borrow() dropped
\* at the end of its statement (the let, the if condition); retain and push
\* each run under a borrow_mut() of their own; the retain closure borrows
\* no node.
ConnectBorrows(a) ==
    LET sel == Upgrade(a, a.selected_state)
        sec == Upgrade(a, a.secondary_selected_state)
    IN IF sel # Null /\ sec # Null
       THEN <<Borrow(sec), DropRef(sec),
              BorrowMut(sec), DropRefMut(sec),
              Borrow(sec), DropRef(sec)>>
            \o (IF sel \in Range(ArrowTargets(a, sec)) THEN <<>>
                ELSE <<BorrowMut(sec), DropRefMut(sec)>>)
       ELSE <<>>

\* KeyCode::Left, Right, Up, Down: selected.borrow_mut().x -= 5.0
MoveBorrows(a) ==
    LET sel == Upgrade(a, a.selected_state) IN
    IF sel # Null THEN <<BorrowMut(sel), DropRefMut(sel)>> ELSE <<>>

\* FSMState::draw of the node at n, called as state.borrow().draw(..): the
\* node stays borrowed for the whole call, and each target that upgrades is
\* borrowed while its arrow is computed and drawn.
NodeDrawBorrows(a, n) ==
    LET targets == ArrowTargets(a, n) IN
    <<Borrow(n)>>
    \o Flatten([i \in 1 .. Len(targets) |->
                   <<Borrow(targets[i]), DropRef(targets[i])>>])
    \o <<DropRef(n)>>

\* Faulty variant of DrawBorrows: each node is taken with borrow_mut() to be drawn.
DrawBorrowsMut(a) ==
    Flatten([i \in 1 .. Len(a.states) |->
        LET n == a.states[i]
            targets == ArrowTargets(a, n)
        IN <<BorrowMut(n)>>
           \o Flatten([j \in 1 .. Len(targets) |->
                          <<Borrow(targets[j]), DropRef(targets[j])>>])
           \o <<DropRefMut(n)>>])

\* App::canvas: for state in &self.states { state.borrow().draw(..) }
DrawBorrows(a) ==
    Flatten([i \in 1 .. Len(a.states) |-> NodeDrawBorrows(a, a.states[i])])

\* ------------------------------------------------------------ the run loop
Naming == new_state_name # None

\* key.code values, key.kind values, and what one loop iteration can get
\* from event::poll and event::read: poll false (the 50 ms ran out), an
\* event that is no key event, or a key event of some kind and code
KeyCodes ==
    Chars \cup {"Backspace", "Enter", "Esc", "Tab", "Left", "Right", "Up", "Down"}

KeyKinds == {"Press", "Repeat", "Release"}

Inputs ==
    {[poll |-> FALSE, key |-> FALSE, kind |-> "-", code |-> "-"],
     [poll |-> TRUE, key |-> FALSE, kind |-> "-", code |-> "-"]}
    \cup {[poll |-> TRUE, key |-> TRUE, kind |-> k, code |-> c] :
              k \in KeyKinds, c \in KeyCodes}

\* The two matches on key.code; an Enter that creates a node allocates it
\* at addr.  'q' leaves the App as it is and returns from run.
OnKeyPress(a, code, addr) ==
    IF a.new_state_name # None
    THEN CASE code \in Chars -> OnNamingChar(a, code)
           [] code = "Backspace" -> OnNamingBackspace(a)
           [] code = "Enter" -> OnNamingEnter(a, addr)
           [] code = "Esc" -> OnNamingEsc(a)
           [] OTHER -> a
    ELSE CASE code = "q" -> a
           [] code = "s" -> OnStage(a)
           [] code = "c" -> OnConnect(a)
           [] code = "d" -> OnDelete(a)
           [] code = "n" -> OnNew(a)
           [] code = "m" -> OnMarker(a)
           [] code = "Tab" -> OnTab(a)
           [] code = "Esc" -> OnEsc(a)
           [] code = "Left" -> OnLeft(a)
           [] code = "Right" -> OnRight(a)
           [] code = "Up" -> OnUp(a)
           [] code = "Down" -> OnDown(a)
           [] OTHER -> a

\* Faulty variant of Iteration: key.kind is not looked at, a release or a repeat
\* acts like a press.
IterationAnyKind(a, in, addr) ==
    IF in.poll
    THEN IF in.key THEN OnKeyPress(a, in.code, addr) ELSE a
    ELSE a

\* The App after one loop iteration that got the input in
Iteration(a, in, addr) ==
    IF in.poll
    THEN IF in.key
         THEN IF in.kind = "Press" THEN OnKeyPress(a, in.code, addr) ELSE a
         ELSE a
    ELSE a

\* Whether the iteration that got the input in returns from run
Returns(a, in) ==
    /\ in.poll
    /\ in.key
    /\ in.kind = "Press"
    /\ a.new_state_name = None
    /\ in.code = "q"

\* One loop iteration whose dispatch leaves the App as a2
Dispatch(a2) ==
    /\ pc = "run"
    /\ states' = a2.states
    /\ heap' = a2.heap
    /\ selected_state' = a2.selected_state
    /\ secondary_selected_state' = a2.secondary_selected_state
    /\ new_state_name' = a2.new_state_name
    /\ marker' = a2.marker
    /\ UNCHANGED <<pc, result, restored>>

\* App::new()
NewApp ==
    [states |-> <<>>, heap |-> [n \in Addr |-> NoNode],
     selected_state |-> Null, secondary_selected_state |-> Null,
     new_state_name |-> None, marker |-> "Braille"]

\* The run loop entered with the App a
StartWith(a) ==
    /\ states = a.states
    /\ heap = a.heap
    /\ selected_state = a.selected_state
    /\ secondary_selected_state = a.secondary_selected_state
    /\ new_state_name = a.new_state_name
    /\ marker = a.marker
    /\ pc = "run"
    /\ result = "none"
    /\ restored = 0

\* main: App::new().run(terminal)
Init == StartWith(NewApp)

\* naming branch
NamingChar(ch) ==
    /\ Naming
    /\ Len(Unwrap(new_state_name)) < MaxNameLen
    /\ Dispatch(OnNamingChar(App, ch))

NamingBackspace ==
    /\ Naming
    /\ Dispatch(OnNamingBackspace(App))

NamingEnter ==
    /\ Naming
    /\ \E addr \in FreeAddrs(App) :
           Dispatch(OnNamingEnter(App, addr))

NamingEsc ==
    /\ Naming
    /\ Dispatch(OnNamingEsc(App))

\* `_ => ()` of the naming branch
NamingIgnoredCodes == {"Tab", "Left", "Right", "Up", "Down"}

NamingIgnored(code) ==
    /\ Naming
    /\ code \in NamingIgnoredCodes
    /\ Dispatch(App)

\* Faulty variant of KeyQuit: 'q' is matched before the naming branch is tried.
KeyQuitAnyMode ==
    /\ pc = "run"
    /\ pc' = "returned"
    /\ result' = "Ok"
    /\ UNCHANGED <<states, heap, selected_state, secondary_selected_state,
                   new_state_name, marker, restored>>

\* normal branch
KeyQuit ==
    /\ ~Naming
    /\ pc = "run"
    /\ pc' = "returned"
    /\ result' = "Ok"
    /\ UNCHANGED <<states, heap, selected_state, secondary_selected_state,
                   new_state_name, marker, restored>>

KeyStage ==
    /\ ~Naming
    /\ Dispatch(OnStage(App))

KeyConnect ==
    /\ ~Naming
    /\ EdgeCount(OnConnect(App)) <= MaxEdges
    /\ Dispatch(OnConnect(App))

KeyDelete ==
    /\ ~Naming
    /\ Dispatch(OnDelete(App))

KeyNew ==
    /\ ~Naming
    /\ Dispatch(OnNew(App))

KeyMarker ==
    /\ ~Naming
    /\ Dispatch(OnMarker(App))

KeyTab ==
    /\ ~Naming
    /\ Dispatch(OnTab(App))

KeyEsc ==
    /\ ~Naming
    /\ Dispatch(OnEsc(App))

\* The canvas region the model lets a node move in
InReach(a) ==
    \A n \in Range(a.states) :
        /\ a.heap[n].x \in SpawnX - MaxStep * MoveStep .. SpawnX + MaxStep * MoveStep
        /\ a.heap[n].y \in SpawnY - MaxStep * MoveStep .. SpawnY + MaxStep * MoveStep

KeyLeft ==
    /\ ~Naming
    /\ InReach(OnLeft(App))
    /\ Dispatch(OnLeft(App))

KeyRight ==
    /\ ~Naming
    /\ InReach(OnRight(App))
    /\ Dispatch(OnRight(App))

KeyUp ==
    /\ ~Naming
    /\ InReach(OnUp(App))
    /\ Dispatch(OnUp(App))

KeyDown ==
    /\ ~Naming
    /\ InReach(OnDown(App))
    /\ Dispatch(OnDown(App))

\* `_ => {}` of the normal branch
NormalIgnoredCodes == {"a", "Backspace", "Enter"}

KeyIgnored(code) ==
    /\ ~Naming
    /\ code \in NormalIgnoredCodes
    /\ Dispatch(App)

\* event::poll returned false, or the event read is no key press
NoPressKinds == {"Timeout", "NonKey", "Release"}

NoPress(kind) ==
    /\ kind \in NoPressKinds
    /\ Dispatch(App)

\* terminal.draw, event::poll or event::read failed: `?` returns the error
IoError ==
    /\ pc = "run"
    /\ pc' = "returned"
    /\ result' = "Err"
    /\ UNCHANGED <<states, heap, selected_state, secondary_selected_state,
                   new_state_name, marker, restored>>

\* Faulty variant of Restore: run's result is unwrapped with `?` before restore,
\* so an error leaves main without restoring the terminal.
RestoreOnOk ==
    /\ pc = "returned"
    /\ restored' = IF result = "Ok" THEN restored + 1 ELSE restored
    /\ pc' = "exit"
    /\ UNCHANGED <<states, heap, selected_state, secondary_selected_state,
                   new_state_name, marker, result>>

\* main: ratatui::restore(); app_result
Restore ==
    /\ pc = "returned"
    /\ restored' = restored + 1
    /\ pc' = "exit"
    /\ UNCHANGED <<states, heap, selected_state, secondary_selected_state,
                   new_state_name, marker, result>>

Next ==
    \/ \E ch \in Chars : NamingChar(ch)
    \/ NamingBackspace
    \/ NamingEnter
    \/ NamingEsc
    \/ \E code \in NamingIgnoredCodes : NamingIgnored(code)
    \/ KeyQuit
    \/ KeyStage
    \/ KeyConnect
    \/ KeyDelete
    \/ KeyNew
    \/ KeyMarker
    \/ KeyTab
    \/ KeyEsc
    \/ KeyLeft
    \/ KeyRight
    \/ KeyUp
    \/ KeyDown
    \/ \E code \in NormalIgnoredCodes : KeyIgnored(code)
    \/ \E kind \in NoPressKinds : NoPress(kind)
    \/ IoError
    \/ Restore

Spec == Init /\ [][Next]_vars

\* -------------------------------------------- restricted environments
\* The user edits the graph and never types a name: every node is named "".
NextGraph ==
    \/ KeyNew
    \/ NamingEnter
    \/ NamingEsc
    \/ KeyStage
    \/ KeyConnect
    \/ KeyDelete
    \/ KeyTab
    \/ KeyEsc

SpecGraph == Init /\ [][NextGraph]_vars

\* Enter while the Graph holds fewer than MaxLive nodes
NamingEnterCapped ==
    /\ Len(states) < MaxLive
    /\ NamingEnter

\* The user edits a graph of at most MaxLive nodes at a time: deleted nodes
\* leave stale references behind and new nodes are created next to them.
NextStale ==
    \/ KeyNew
    \/ NamingEnterCapped
    \/ NamingEsc
    \/ KeyStage
    \/ KeyConnect
    \/ KeyDelete
    \/ KeyTab
    \/ KeyEsc

SpecStale == Init /\ [][NextStale]_vars

\* The editor after the keys  n a Enter Right n Enter Tab s Tab Tab c
\* Tab s Tab Tab: node 1 "a", moved right, with the edge 1 -> 2, staged
\* as secondary; node 2 "" selected as primary.
SampleApp ==
    LET a1 == OnRight(OnNamingEnter(OnNamingChar(OnNew(NewApp), "a"), 1))
        a2 == OnNamingEnter(OnNew(a1), 2)
        a3 == OnConnect(OnTab(OnTab(OnStage(OnTab(a2)))))
    IN OnTab(OnTab(OnStage(OnTab(a3))))

InitSample == StartWith(SampleApp)

\* Names the user types in SpecNaming
NameChars == {"a", "q"}

\* The user names new nodes and moves the selection around.
NextNaming ==
    \/ KeyNew
    \/ \E ch \in NameChars : NamingChar(ch)
    \/ NamingBackspace
    \/ NamingEnter
    \/ NamingEsc
    \/ KeyStage
    \/ KeyTab

SpecNaming == InitSample /\ [][NextNaming]_vars

\* Every key of the naming branch but Enter, and in Normal mode the
\* commands bound to characters.
NextKeys ==
    \/ \E ch \in Chars : NamingChar(ch)
    \/ NamingBackspace
    \/ NamingEsc
    \/ \E code \in NamingIgnoredCodes : NamingIgnored(code)
    \/ KeyQuit
    \/ KeyStage
    \/ KeyConnect
    \/ KeyDelete
    \/ KeyNew
    \/ KeyMarker

SpecKeys == InitSample /\ [][NextKeys]_vars

\* The user moves the two nodes of SampleApp around, selects, connects and
\* deletes them; no node is created.
NextMoves ==
    \/ KeyStage
    \/ KeyConnect
    \/ KeyDelete
    \/ KeyTab
    \/ KeyEsc
    \/ KeyLeft
    \/ KeyRight
    \/ KeyUp
    \/ KeyDown

SpecMoves == InitSample /\ [][NextMoves]_vars

\* The run loop until main returns: keys of both modes, iterations without
\* a key press, the quit key, a failing draw, poll or read, and main's
\* restore.  main runs restore as soon as run has returned.
NextLoop ==
    \/ KeyNew
    \/ \E ch \in NameChars : NamingChar(ch)
    \/ NamingEsc
    \/ KeyStage
    \/ KeyTab
    \/ KeyMarker
    \/ \E kind \in NoPressKinds : NoPress(kind)
    \/ KeyQuit
    \/ IoError
    \/ Restore

SpecLoop == InitSample /\ [][NextLoop]_vars /\ WF_vars(Restore)

\* ------------------------------------------------------------- properties
\* What the two selection slots resolve to
Primary == Upgrade(App, selected_state)
Secondary == Upgrade(App, secondary_selected_state)

\* The sequence s without its entries equal to w
Without(s, w) == SelectSeq(s, LAMBDA e : e # w)

\* C1: toggle-connect with both slots resolving removes secondary's
\* reference to primary if it holds one and appends exactly one otherwise;
\* the edge goes secondary -> primary, primary's own list is untouched when
\* the nodes differ, and both slots end empty.
C1_ToggleConnect ==
    (~Naming /\ Primary # Null /\ Secondary # Null) =>
        LET a1 == OnConnect(App)
            old == heap[Secondary].next_states
            new == a1.heap[Secondary].next_states
        IN /\ IF Primary \in Range(old)
              THEN new = Without(old, Primary)
              ELSE new = Append(old, Primary)
           /\ Primary # Secondary =>
                  a1.heap[Primary].next_states = heap[Primary].next_states
           /\ a1.selected_state = Null
           /\ a1.secondary_selected_state = Null

\* C1 witness: A then B created, A staged, B selected, toggled:
\* A.outgoing = [B], B.outgoing empty, both slots empty.
C1_Witness ==
    /\ Len(states) = 2
    /\ heap[states[1]].next_states = <<states[2]>>
    /\ heap[states[2]].next_states = <<>>
    /\ selected_state = Null
    /\ secondary_selected_state = Null

\* C2: delete with primary resolving to D removes D and only D from the
\* Graph, leaves primary empty, leaves secondary empty if it referred to D,
\* and no outgoing reference resolves to D afterwards.
C2_Delete ==
    (~Naming /\ Primary # Null) =>
        LET D == Primary
            a1 == OnDelete(App)
        IN /\ Len(a1.states) = Len(states) - 1
           /\ Range(a1.states) = Range(states) \ {D}
           /\ Upgrade(a1, a1.selected_state) = Null
           /\ secondary_selected_state = D =>
                  Upgrade(a1, a1.secondary_selected_state) = Null
           /\ \A n \in Range(a1.states) :
                  \A i \in 1 .. Len(a1.heap[n].next_states) :
                      Upgrade(a1, a1.heap[n].next_states[i]) # D

\* C2 witness: the node both slots referred to was deleted while another
\* node held an edge to it.
C2_Witness ==
    /\ selected_state # Null
    /\ secondary_selected_state = selected_state
    /\ selected_state \notin Range(states)
    /\ \E n \in Range(states) : selected_state \in Range(heap[n].next_states)

\* The App with the selection (secondary S, primary P) established
Selecting(a, S, P) ==
    [a EXCEPT !.selected_state = P, !.secondary_selected_state = S]

\* Whether the node at S holds a reference to P
HasEdge(a, S, P) == P \in Range(a.heap[S].next_states)

\* C3: toggle-connect applied to (secondary S, primary P), the selection
\* re-established, and toggle-connect applied again leaves S with the set
\* of targets it started from; the edge S -> P is present after the first
\* application iff it was absent, and after the second iff it was present.
C3_ToggleTwice ==
    (~Naming /\ Primary # Null /\ Secondary # Null) =>
        LET S == Secondary
            P == Primary
            a1 == OnConnect(App)
            a2 == OnConnect(Selecting(a1, S, P))
        IN /\ Range(a2.heap[S].next_states) = Range(heap[S].next_states)
           /\ HasEdge(a1, S, P) <=> ~HasEdge(App, S, P)
           /\ HasEdge(a2, S, P) <=> HasEdge(App, S, P)

\* C3 witness: S and P are selected again after a toggle added S -> P, S
\* holding another reference as well.
C3_Witness ==
    /\ ~Naming
    /\ Primary # Null
    /\ Secondary # Null
    /\ Primary # Secondary
    /\ HasEdge(App, Secondary, Primary)
    /\ Len(heap[Secondary].next_states) = 2

\* C4: no next_states list ever holds two references to the same node,
\* whether the target is live or was deleted.
C4_NoDuplicateReference ==
    \A n \in Addr :
        \A i, j \in 1 .. Len(heap[n].next_states) :
            i # j => heap[n].next_states[i] # heap[n].next_states[j]

\* C4 witness: after a toggle, a live node holds a stale reference next to
\* a live one.
C4_Witness ==
    /\ \E n \in Range(states) :
           /\ Len(heap[n].next_states) = 2
           /\ \E t \in Range(heap[n].next_states) : Upgrade(App, t) = Null
           /\ \E t \in Range(heap[n].next_states) : Upgrade(App, t) # Null

\* C5: a selection slot never resolves to a node outside the Graph, and a
\* slot that referred to a node resolves to nothing from the very step that
\* removes the node from the Graph.
C5_SlotsResolveInGraph ==
    /\ [](/\ Primary # Null => Primary \in Range(states)
          /\ Secondary # Null => Secondary \in Range(states))
    /\ [][\A n \in Range(states) \ Range(states') :
              /\ selected_state = n =>
                     Upgrade(App', selected_state') = Null
              /\ secondary_selected_state = n =>
                     Upgrade(App', secondary_selected_state') = Null]_vars

\* C5 witness: secondary still points at a deleted node while primary has
\* moved on to a live one.
C5_Witness ==
    /\ secondary_selected_state # Null
    /\ secondary_selected_state \notin Range(states)
    /\ Secondary = Null
    /\ Primary # Null

\* The index of the node n in the Graph's iteration order
IndexOf(n) == CHOOSE i \in 1 .. Len(states) : states[i] = n

\* C6: Tab selects the node after the current primary, the first node when
\* primary is the last node or resolves to nothing, and changes nothing on
\* an empty Graph; it never touches secondary, the Graph or any node.
C6_Tab ==
    ~Naming =>
        LET a1 == OnTab(App) IN
        /\ a1.selected_state =
               IF states = <<>> THEN selected_state
               ELSE IF Primary = Null THEN states[1]
               ELSE IF IndexOf(Primary) = Len(states) THEN states[1]
               ELSE states[IndexOf(Primary) + 1]
        /\ a1.secondary_selected_state = secondary_selected_state
        /\ a1.states = states
        /\ a1.heap = heap

\* C6 witness: Tab moved primary to the middle one of three nodes, while
\* the last one is staged as secondary and holds an edge.
C6_Witness ==
    /\ ~Naming
    /\ Len(states) = 3
    /\ selected_state = states[2]
    /\ secondary_selected_state = states[3]
    /\ heap[states[3]].next_states # <<>>

\* n consecutive Tab presses
RECURSIVE TabTimes(_, _)
TabTimes(a, n) == IF n = 0 THEN a ELSE OnTab(TabTimes(a, n - 1))

\* C7: with N >= 1 nodes, N Tabs from an empty primary select the nodes in
\* Graph order, each once, and one more selects the first again; from a set
\* primary, N Tabs come back to it after visiting every other node once.
C7_TabCycle ==
    (~Naming /\ states # <<>>) =>
        LET N == Len(states) IN
        IF Primary = Null
        THEN /\ \A k \in 1 .. N : TabTimes(App, k).selected_state = states[k]
             /\ TabTimes(App, N + 1).selected_state = states[1]
        ELSE /\ TabTimes(App, N).selected_state = Primary
             /\ \A n \in Range(states) \ {Primary} :
                    Cardinality({k \in 1 .. N - 1 :
                        TabTimes(App, k).selected_state = n}) = 1

\* C7 witness: of three nodes the last was staged, which empties primary,
\* and Tab was pressed until primary reached it.
C7_Witness ==
    /\ ~Naming
    /\ Len(states) = 3
    /\ selected_state = states[3]
    /\ secondary_selected_state = states[3]

\* C8: Enter while naming appends exactly one node, named by the buffer, at
\* (200,200) with no outgoing reference, makes it primary, clears the
\* buffer and returns to Normal; the nodes there before and secondary are
\* unchanged.
C8_EnterCreatesNode ==
    Naming =>
        \A addr \in FreeAddrs(App) :
            LET a1 == OnNamingEnter(App, addr)
                new == a1.states[Len(a1.states)]
            IN /\ Len(a1.states) = Len(states) + 1
               /\ SubSeq(a1.states, 1, Len(states)) = states
               /\ new \notin Range(states)
               /\ a1.heap[new].name = Unwrap(new_state_name)
               /\ a1.heap[new].x = 200
               /\ a1.heap[new].y = 200
               /\ a1.heap[new].next_states = <<>>
               /\ Upgrade(a1, a1.selected_state) = new
               /\ a1.new_state_name = None
               /\ \A n \in Range(states) : a1.heap[n] = heap[n]
               /\ a1.secondary_selected_state = secondary_selected_state

\* C8 witness: a third node named "aq" was created and is primary, next to
\* a moved node with an edge that is still staged as secondary.
C8_Witness ==
    /\ ~Naming
    /\ Len(states) = 3
    /\ selected_state = states[3]
    /\ heap[states[3]] = NewNode(<<"a", "q">>)
    /\ secondary_selected_state = states[1]
    /\ heap[states[1]].x = 205
    /\ heap[states[1]].next_states = <<states[2]>>

\* The App after the characters of word were typed
RECURSIVE Typed(_, _)
Typed(a, word) ==
    IF word = <<>> THEN a
    ELSE OnNamingChar(Typed(a, SubSeq(word, 1, Len(word) - 1)), word[Len(word)])

\* The pending-name buffer of the App a
Buffer(a) == Unwrap(a.new_state_name)

\* C9: while naming, a character is appended to the buffer, Backspace
\* removes exactly the last character and does nothing on an empty buffer,
\* Escape drops the buffer without creating a node; "Idle" typed and two
\* Backspaces leave "Id", and Escape then leaves the editor as it was.
C9_NamingBuffer ==
    /\ Naming =>
        /\ \A ch \in Chars :
               Buffer(OnNamingChar(App, ch)) = Append(Buffer(App), ch)
        /\ LET b == Buffer(OnNamingBackspace(App)) IN
           IF Buffer(App) = <<>> THEN b = <<>>
           ELSE /\ Len(b) = Len(Buffer(App)) - 1
                /\ \A i \in 1 .. Len(b) : b[i] = Buffer(App)[i]
        /\ LET e == OnNamingEsc(App) IN
           /\ e.new_state_name = None
           /\ e.states = states
           /\ e.selected_state = selected_state
           /\ e.secondary_selected_state = secondary_selected_state
    /\ ~Naming =>
        LET a1 == Typed(OnNew(App), <<"I", "d", "l", "e">>)
            a2 == OnNamingBackspace(OnNamingBackspace(a1))
        IN /\ Buffer(a1) = <<"I", "d", "l", "e">>
           /\ Buffer(a2) = <<"I", "d">>
           /\ OnNamingEsc(a2) = App

\* C9 witness: two characters were typed while two nodes exist and both
\* slots resolve.
C9_Witness ==
    /\ Naming
    /\ Len(Buffer(App)) = 2
    /\ Len(states) = 2
    /\ Primary # Null
    /\ Secondary # Null

\* C10: from a naming state no step changes the Graph, a node, a selection
\* slot or the marker, or ends the run loop: a step only appends one
\* character to the buffer, removes its last one, leaves it alone or (Escape)
\* drops it.  The buffer comes into being only by the 'new' command, empty,
\* and goes away only by Enter or Escape.
C10_NamingExclusive ==
    [][/\ Naming =>
            /\ UNCHANGED <<states, heap, selected_state,
                           secondary_selected_state, marker, pc, result,
                           restored>>
            /\ \/ new_state_name' = None
               \/ new_state_name' = new_state_name
               \/ \E ch \in Chars :
                      new_state_name' = Some(Append(Buffer(App), ch))
               \/ /\ Buffer(App) # <<>>
                  /\ new_state_name' =
                         Some(SubSeq(Buffer(App), 1, Len(Buffer(App)) - 1))
       /\ (~Naming /\ Naming') => (KeyNew /\ new_state_name' = Some(<<>>))
       /\ (Naming /\ ~Naming') => (NamingEsc \/ NamingEnter)]_vars

\* C10 witness: the command characters q and d were typed as a name while
\* a primary, a secondary and an edge between them are there to act on.
C10_Witness ==
    /\ new_state_name = Some(<<"q", "d">>)
    /\ pc = "run"
    /\ Len(states) = 2
    /\ Primary = states[2]
    /\ Secondary = states[1]
    /\ heap[states[1]].next_states = <<states[2]>>
    /\ marker = "Braille"

\* C11: a Normal-mode command whose precondition fails leaves the whole
\* App as it is: delete and the four moves when primary resolves to
\* nothing, toggle-connect when primary or secondary resolves to nothing
\* (a slot that is set stays set), Tab on an empty Graph.
C11_NoOpOnFailedPrecondition ==
    ~Naming =>
        /\ Primary = Null =>
               /\ OnDelete(App) = App
               /\ OnConnect(App) = App
               /\ OnLeft(App) = App
               /\ OnRight(App) = App
               /\ OnUp(App) = App
               /\ OnDown(App) = App
        /\ Secondary = Null => OnConnect(App) = App
        /\ states = <<>> => OnTab(App) = App

\* C11 witness: secondary is staged and holds an edge while primary is
\* empty, so connect, delete and the moves all find their precondition
\* failing with state there to lose.
C11_Witness ==
    /\ ~Naming
    /\ Primary = Null
    /\ Secondary # Null
    /\ heap[Secondary].next_states # <<>>
    /\ Len(states) = 2

\* C12: 's' in Normal mode makes secondary what primary was and empties
\* primary, also when primary resolved to nothing: a staged secondary is
\* then overwritten and both slots end empty.  The Graph, every node, the
\* mode and the marker are unchanged.
C12_Stage ==
    ~Naming =>
        LET a1 == OnStage(App) IN
        /\ a1.secondary_selected_state = selected_state
        /\ Upgrade(a1, a1.secondary_selected_state) = Primary
        /\ a1.selected_state = Null
        /\ Primary = Null =>
               /\ Upgrade(a1, a1.selected_state) = Null
               /\ Upgrade(a1, a1.secondary_selected_state) = Null
        /\ a1.states = states
        /\ a1.heap = heap
        /\ a1.new_state_name = new_state_name
        /\ a1.marker = marker

\* C12 witness: the second node was staged, replacing the first as
\* secondary; primary is empty, so one more 's' would empty both slots.
C12_Witness ==
    /\ ~Naming
    /\ Len(states) = 2
    /\ selected_state = Null
    /\ secondary_selected_state = states[2]
    /\ heap[states[1]].next_states = <<states[2]>>

\* Whether a1 is the App with the node at P displaced by (dx, dy) and
\* nothing else changed
MovedOnly(a1, P, dx, dy) ==
    /\ a1.heap[P].x = heap[P].x + dx
    /\ a1.heap[P].y = heap[P].y + dy
    /\ a1.heap[P].name = heap[P].name
    /\ a1.heap[P].next_states = heap[P].next_states
    /\ a1.heap[P].strong = heap[P].strong
    /\ \A n \in Addr \ {P} : a1.heap[n] = heap[n]
    /\ a1.states = states
    /\ a1.selected_state = selected_state
    /\ a1.secondary_selected_state = secondary_selected_state
    /\ a1.new_state_name = new_state_name
    /\ a1.marker = marker

\* C13: in Normal mode with primary resolving, Left, Right, Up and Down
\* change the primary node's x by -5, x by +5, y by +5 and y by -5, and
\* nothing else: no other node, name, next_states list, the Graph, no slot
\* and not the marker.  Left then Right, and Up then Down, restore the App.
C13_Move ==
    (~Naming /\ Primary # Null) =>
        /\ MovedOnly(OnLeft(App), Primary, -5, 0)
        /\ MovedOnly(OnRight(App), Primary, 5, 0)
        /\ MovedOnly(OnUp(App), Primary, 0, 5)
        /\ MovedOnly(OnDown(App), Primary, 0, -5)
        /\ OnRight(OnLeft(App)) = App
        /\ OnDown(OnUp(App)) = App

\* C13 witness: the primary node was moved left and up of its spawn
\* position while the other node, staged and holding an edge, stayed where
\* it was.
C13_Witness ==
    /\ ~Naming
    /\ Len(states) = 2
    /\ Primary = states[2]
    /\ heap[states[2]].x = 195
    /\ heap[states[2]].y = 205
    /\ Secondary = states[1]
    /\ heap[states[1]].x = 205
    /\ heap[states[1]].y = 200
    /\ heap[states[1]].next_states = <<states[2]>>

\* n consecutive 'm' presses
RECURSIVE MarkerTimes(_, _)
MarkerTimes(a, n) == IF n = 0 THEN a ELSE OnMarker(MarkerTimes(a, n - 1))

\* C14: the marker is always one of Dot, Block, Bar, Braille, HalfBlock,
\* Braille at first; 'm' in Normal mode moves it to the next of that order,
\* HalfBlock to Dot, and changes nothing else, so five presses restore the
\* App and fewer do not; no other key changes the marker.
C14_Marker ==
    LET order == <<"Dot", "Block", "Bar", "Braille", "HalfBlock">>
        i == CHOOSE k \in 1 .. 5 : order[k] = marker
    IN /\ marker \in Range(order)
       /\ NewApp.marker = "Braille"
       /\ ~Naming =>
              /\ OnMarker(App) = [App EXCEPT !.marker = order[(i % 5) + 1]]
              /\ MarkerTimes(App, 5) = App
              /\ \A k \in 1 .. 4 : MarkerTimes(App, k).marker # marker
              /\ OnStage(App).marker = marker
              /\ OnConnect(App).marker = marker
              /\ OnDelete(App).marker = marker
              /\ OnNew(App).marker = marker
              /\ OnTab(App).marker = marker
              /\ OnEsc(App).marker = marker
              /\ OnLeft(App).marker = marker
              /\ OnRight(App).marker = marker
              /\ OnUp(App).marker = marker
              /\ OnDown(App).marker = marker
       /\ Naming =>
              /\ \A ch \in Chars : OnNamingChar(App, ch).marker = marker
              /\ OnNamingBackspace(App).marker = marker
              /\ OnNamingEsc(App).marker = marker
              /\ \A addr \in FreeAddrs(App) :
                     OnNamingEnter(App, addr).marker = marker

\* C14 witness: two presses after Braille the marker has wrapped to Dot,
\* with both nodes, the edge and the selection as they were.
C14_Witness ==
    /\ marker = "Dot"
    /\ ~Naming
    /\ Len(states) = 2
    /\ Primary = states[2]
    /\ Secondary = states[1]
    /\ heap[states[1]].next_states = <<states[2]>>

\* C15: the run loop is left only by 'q' in Normal mode, with Ok, or by a
\* failing draw, poll or read, with Err; once it is left no field of the
\* App changes and the result stays; the terminal is restored after the
\* loop has ended, exactly once, and main returns the result only then.
C15_LoopExit ==
    /\ [](/\ pc = "run" => (result = "none" /\ restored = 0)
          /\ pc = "returned" => (result \in {"Ok", "Err"} /\ restored = 0)
          /\ pc = "exit" => (result \in {"Ok", "Err"} /\ restored = 1))
    /\ [][(pc = "run" /\ pc' # "run") =>
              /\ pc' = "returned"
              /\ \/ KeyQuit /\ ~Naming /\ result' = "Ok"
                 \/ IoError /\ result' = "Err"]_vars
    /\ [][pc # "run" =>
              /\ UNCHANGED <<states, heap, selected_state,
                             secondary_selected_state, new_state_name,
                             marker, result>>
              /\ pc = "returned" /\ pc' = "exit"
              /\ restored' = restored + 1]_vars
    /\ (pc = "returned") ~> (pc = "exit" /\ restored = 1)

\* C15 witness: main has returned the error of a failing draw, poll or
\* read that struck while a name was being typed, the terminal restored
\* once and the App as the loop left it.
C15_Witness ==
    /\ pc = "exit"
    /\ result = "Err"
    /\ restored = 1
    /\ new_state_name = Some(<<"q", "a">>)
    /\ Len(states) = 2

\* C16: a loop iteration that gets no key press -- poll timed out, the
\* event is no key event, or the key event's kind is not Press -- leaves
\* every field of the App as it is and does not leave the loop.
C16_NoPressNoChange ==
    /\ [](pc = "run" =>
             \A in \in Inputs : \A addr \in Addr :
                 ~(in.poll /\ in.key /\ in.kind = "Press") =>
                     /\ Iteration(App, in, addr) = App
                     /\ ~Returns(App, in))
    /\ [][(\E kind \in NoPressKinds : NoPress(kind)) =>
              UNCHANGED vars /\ pc' = "run"]_vars

\* C16 witness: the loop is running in naming mode with a name typed, both
\* slots resolving and the marker changed: a release of Enter, Esc or
\* Backspace taken for a press would change this state.
C16_Witness ==
    /\ pc = "run"
    /\ new_state_name = Some(<<"a">>)
    /\ marker = "HalfBlock"
    /\ Len(states) = 2
    /\ Primary # Null
    /\ Secondary # Null

\* The entries of the list s that do not upgrade in the App a
Stale(a, s) == SelectSeq(s, LAMBDA w : Upgrade(a, w) = Null)

\* C17: references to deleted nodes may stay in next_states lists; for
\* every node of the Graph, draw makes an arrow for exactly the references
\* whose target is a node of the Graph, and toggle-connect keeps every
\* stale reference of secondary's list and, when no live reference is to
\* primary, appends one, whatever stale references the list holds.
C17_StaleReferences ==
    /\ \A n \in Range(states) :
           ArrowTargets(App, n) =
               SelectSeq(heap[n].next_states, LAMBDA w : w \in Range(states))
    /\ (~Naming /\ Primary # Null /\ Secondary # Null) =>
           LET old == heap[Secondary].next_states
               new == OnConnect(App).heap[Secondary].next_states
           IN /\ Stale(App, new) = Stale(App, old)
              /\ Primary \notin Range(ArrowTargets(App, Secondary)) =>
                     new = Append(old, Primary)

\* C17 witness: a toggle appended a live reference behind a stale one,
\* which it kept; the node is drawn with one arrow.
C17_Witness ==
    /\ selected_state = Null
    /\ secondary_selected_state = Null
    /\ \E n \in Range(states) :
           /\ Len(heap[n].next_states) = 2
           /\ Upgrade(App, heap[n].next_states[1]) = Null
           /\ Upgrade(App, heap[n].next_states[2]) # Null
           /\ Len(ArrowTargets(App, n)) = 1

\* C18: no key press and no frame panics.  When primary resolves, delete's
\* position lookup finds the node in the Graph and Tab finds the Graph
\* non-empty; the RefCell borrows of toggle-connect, of a move and of
\* drawing the frame never meet a conflicting borrow, also when primary and
\* secondary, or a node and the target of its edge, are the same node.
C18_NoFault ==
    /\ (~Naming /\ Primary # Null) =>
           /\ Position(states, Primary) # 0
           /\ states # <<>>
    /\ ~Panics(ConnectBorrows(App))
    /\ ~Panics(MoveBorrows(App))
    /\ ~Panics(DrawBorrows(App))

\* C18 witness: a node holding an edge to itself is primary and secondary
\* at once, next to another node: toggle-connect would work on one node in
\* both roles, and drawing borrows that node while it is borrowed.
C18_Witness ==
    /\ ~Naming
    /\ Len(states) >= 2
    /\ Primary # Null
    /\ Primary = Secondary
    /\ Primary \in Range(ArrowTargets(App, Primary))

\* C19: both slots can hold the same node: from any resolving primary, 's'
\* and then Tab pressed up to that node's place in the Graph gets there.
\* With both slots on the node P, toggle-connect appends P to P's own list
\* if it is not in it and removes it if it is, empties both slots and
\* leaves every other node, P's position and name and the Graph alone;
\* delete leaves both slots resolving to nothing.
C19_SameNodeInBothSlots ==
    /\ (~Naming /\ Primary # Null) =>
           LET a == TabTimes(OnStage(App), IndexOf(Primary)) IN
           /\ Upgrade(a, a.selected_state) = Primary
           /\ Upgrade(a, a.secondary_selected_state) = Primary
    /\ (~Naming /\ Primary # Null /\ Primary = Secondary) =>
           LET P == Primary
               a1 == OnConnect(App)
               a2 == OnDelete(App)
               old == heap[P].next_states
               new == a1.heap[P].next_states
           IN /\ IF P \in Range(old)
                 THEN new = Without(old, P)
                 ELSE new = Append(old, P)
              /\ a1.selected_state = Null
              /\ a1.secondary_selected_state = Null
              /\ \A n \in Addr \ {P} : a1.heap[n] = heap[n]
              /\ a1.heap[P] = [heap[P] EXCEPT !.next_states = new]
              /\ a1.states = states
              /\ Upgrade(a2, a2.selected_state) = Null
              /\ Upgrade(a2, a2.secondary_selected_state) = Null

\* C19 witness: a toggle with both slots on one node gave it an edge to
\* itself, next to an edge to another node, and emptied both slots.
C19_Witness ==
    /\ ~Naming
    /\ selected_state = Null
    /\ secondary_selected_state = Null
    /\ \E n \in Range(states) :
           /\ Len(heap[n].next_states) = 2
           /\ heap[n].next_states[2] = n
           /\ Upgrade(App, heap[n].next_states[1]) # Null

\* C20: a node created by Enter is no node that any reference already
\* points at: every next_states entry and the secondary slot resolve after
\* the creation to what they resolved to before, a stale one to nothing;
\* the new node is none of the Graph's nodes, no node holds a reference to
\* it, no arrow is drawn to it, and its own next_states list is empty.
C20_NoIdentityReuse ==
    Naming =>
        \A addr \in FreeAddrs(App) :
            LET a1 == OnNamingEnter(App, addr)
                new == a1.states[Len(a1.states)]
            IN /\ new \notin Range(states)
               /\ new \notin WeakHeld(App)
               /\ \A n \in Range(states) :
                      /\ a1.heap[n].next_states = heap[n].next_states
                      /\ ArrowTargets(a1, n) = ArrowTargets(App, n)
                      /\ new \notin Range(a1.heap[n].next_states)
               /\ Upgrade(a1, a1.secondary_selected_state) = Secondary
               /\ a1.heap[new].next_states = <<>>
               /\ ArrowTargets(a1, new) = <<>>

\* C20 witness: a node was created after the deletion of a node that
\* another node's edge and the secondary slot still point at; the new node
\* is primary and has no edge, the stale references resolve to nothing.
C20_Witness ==
    /\ ~Naming
    /\ Len(states) = 2
    /\ selected_state = states[2]
    /\ heap[states[2]].next_states = <<>>
    /\ secondary_selected_state # Null
    /\ Secondary = Null
    /\ heap[states[1]].next_states = <<secondary_selected_state>>
    /\ ArrowTargets(App, states[1]) = <<>>

====
